---- MODULE Spec2Model ----
(***************************************************************************)
(* Job-lifecycle coordination of the PDF quiz pipeline: the producer       *)
(* (client/src/producer.py), the worker (client/src/worker.py), the        *)
(* aggregator (client/src/aggregator.py) and the queue client              *)
(* (client/src/queue_client.py) they all talk through.  The remote queue   *)
(* service is the environment: it answers every request with an HTTP       *)
(* response the model picks, and keeps the tasks and their results.        *)
(***************************************************************************)
EXTENDS Integers, Sequences, FiniteSets, TLC

(***************************************************************************)
(* Bounds of the model.                                                    *)
(***************************************************************************)
\* tasks one queue holds / pages one PDF has
MaxTasks == 3
\* tasks already in the queue when a lone worker starts
MaxPreloaded == 2
\* largest configured worker.max_retries explored
MaxRetries == 2
\* questions one result file holds (llm.max_questions_per_page explored)
MaxItems == 2
\* calls a lone queue client makes
MaxCalls == 2
\* largest configured worker.retry_backoff explored, in seconds
MaxUnit == 2

TaskIds == 1..MaxTasks
NoTask == 0
Workers == {"w1", "w2"}

(***************************************************************************)
(* queue_client.py: HTTP responses and the client's outcome for each.      *)
(* "timeout" is a request that never reached the service, "late" one the   *)
(* service carried out but answered after the client's timeout.            *)
(***************************************************************************)
Errors == {"QueueNotFoundError", "InvalidRequestError", "QueueClientError"}

Procs == {"producer", "worker", "aggregator", "llm", "fs"}
Failures == {"r400", "r404", "r500", "timeout", "late"}
NoFaults == [who \in Procs |-> {}]

WriteResponses == {"r200", "r400", "r404", "r500", "timeout", "late"}
ReadResponses == {"r200", "r400", "r404", "r500", "timeout"}

\* the service carried the request out
Applied(resp) == resp \in {"r200", "late"}

\* QueueClient.dequeue_task: 204 is "no task", 404 and 400 their own error
\* kinds, every other failure the generic error
dequeue_task(resp) ==
    CASE resp = "r204" -> "none"
      [] resp = "r404" -> "QueueNotFoundError"
      [] resp = "r400" -> "InvalidRequestError"
      [] resp = "r200" -> "ok"
      [] OTHER -> "QueueClientError"

\* QueueClient.create_queue: only 400 has its own error kind
create_queue(resp) ==
    CASE resp = "r400" -> "InvalidRequestError"
      [] resp = "r200" -> "ok"
      [] OTHER -> "QueueClientError"

\* enqueue_task with the 404 check left out: raise_for_status takes the 404
enqueue_task_no_404_check(resp) ==
    CASE resp = "r400" -> "InvalidRequestError"
      [] resp = "r200" -> "ok"
      [] OTHER -> "QueueClientError"

\* QueueClient.enqueue_task
enqueue_task(resp) ==
    CASE resp = "r404" -> "QueueNotFoundError"
      [] resp = "r400" -> "InvalidRequestError"
      [] resp = "r200" -> "ok"
      [] OTHER -> "QueueClientError"

\* QueueClient.get_queue_status
get_queue_status(resp) ==
    CASE resp = "r404" -> "QueueNotFoundError"
      [] resp = "r400" -> "InvalidRequestError"
      [] resp = "r200" -> "ok"
      [] OTHER -> "QueueClientError"

\* QueueClient.submit_result
submit_result(resp) ==
    CASE resp = "r404" -> "QueueNotFoundError"
      [] resp = "r400" -> "InvalidRequestError"
      [] resp = "r200" -> "ok"
      [] OTHER -> "QueueClientError"

\* get_result with a 404 raised as the queue-not-found error
get_result_404_raises(resp) ==
    CASE resp = "r404" -> "QueueNotFoundError"
      [] resp = "r400" -> "InvalidRequestError"
      [] resp = "r200" -> "ok"
      [] OTHER -> "QueueClientError"

\* QueueClient.get_result: 404 is "no result", 400 its own error kind, every
\* other failure the generic error
get_result(resp) ==
    CASE resp = "r404" -> "none"
      [] resp = "r400" -> "InvalidRequestError"
      [] resp = "r200" -> "ok"
      [] OTHER -> "QueueClientError"

\* `except QueueClientError`: the two subclasses are caught with the base class
IsQueueClientError(e) == e \in Errors

(***************************************************************************)
(* State.                                                                  *)
(***************************************************************************)
VARIABLES
    \* network and services: per process the failures its requests may meet,
    \* under "llm" the exceptions the generation step may raise, and under
    \* "fs" the damage a result file may have taken when it is read
    faults,
    \* queue client: the call a lone client makes (operation, response, outcome)
    qc,
    \* file system: per page the result file {pdf_id}_page_{page_num}_result.json
    rfiles,
    \* queue service: per task id its state, priority and payload shape
    tasks,
    \* queue service: per task id the stored result status
    results,
    \* history: per task id the workers that invoked generation or submitted a
    \* result for it
    processed,
    \* worker: position in run()/_process_task, per worker
    wpc,
    \* worker: the task of the latest dequeue
    wtask,
    \* worker: `attempt` of _process_task
    attempt,
    \* worker: what the worker did for the task of its latest dequeue
    wobs,
    \* worker: config.worker.max_retries
    max_retries,
    \* worker: config.worker.retry_backoff
    retry_backoff,
    \* producer: position in process_pdf/_save_metadata
    ppc,
    \* producer: the source file handed to process_pdf (kind, pages)
    pdf,
    \* producer: locals of process_pdf (total_pages, queue_id, page_num, task_ids)
    plocal,
    \* producer: the enqueue calls made so far and what it raised or returned
    pobs,
    \* file system: the manifest file {pdf_id}_metadata.json
    mfile,
    \* aggregator: position in aggregate()
    apc,
    \* aggregator: locals of aggregate()/_wait_for_completion
    alocal

wvars == <<wpc, wtask, attempt, wobs, max_retries, retry_backoff>>
pvars == <<ppc, pdf, plocal, pobs>>
avars == <<apc, alocal>>
vars == <<faults, qc, rfiles, tasks, results, processed, wvars, pvars, mfile, avars>>

\* shapes of a dequeued task as _process_task tells them apart
Shapes == {"noid", "absent", "undecodable", "nonobject", "missing_field", "wellformed"}

\* outcomes of generate_quiz_from_image followed by _save_result_to_file
GenFailures == {"LLMServiceError", "FileNotFoundError", "Exception"}

\* gen: generation calls; writes: result files written; succ / succOk: SUCCESS
\* submissions made / answered without error; fail: FAILURE submissions made;
\* lastErr: the latest SUCCESS submission error; msg: the FAILURE diagnostic;
\* genErr: the exception of a failed generation; after: generation calls and
\* SUCCESS submissions made once a generation had failed; delays: the sleeps
\* of the retry loop, in seconds
NoObs == [gen |-> 0, writes |-> 0, succ |-> 0, succOk |-> 0, fail |-> 0,
          lastErr |-> "none", msg |-> [kind |-> "none", err |-> "none"],
          genErr |-> "none", after |-> 0, delays |-> <<>>]

(***************************************************************************)
(* Queue service (environment).                                            *)
(***************************************************************************)
Pending == {t \in TaskIds : tasks[t].state = "pending"}

\* the pending task served next: smallest priority value first
NextTask == CHOOSE t \in Pending : \A u \in Pending : tasks[t].prio <= tasks[u].prio

\* the answers process `who` can get to a request that changes the service
\* and to one that reads it
WriteResponsesTo(who) == {"r200"} \cup (faults[who] \cap WriteResponses)
ReadResponsesTo(who) == {"r200"} \cup (faults[who] \cap ReadResponses)

\* what a generation call can end in
GenOutcomes == {"ok"} \cup (faults["llm"] \cap GenFailures)

\* what the service can answer to a dequeue: a task when one is pending, 204
\* when none is, or a failure
DequeueResponses ==
    {IF Pending = {} THEN "r204" ELSE "r200"}
        \cup (ReadResponsesTo("worker") \ {"r200"})

\* a FAILURE result putting the task back in the queue
StoreResult_failure_reopens(t, status) ==
    /\ results' = [results EXCEPT ![t] = status]
    /\ tasks' = [tasks EXCEPT ![t].state = IF status = "FAILURE" THEN "pending"
                                            ELSE "resulted"]

\* the service stores a result for a task (last write wins)
StoreResult(t, status) ==
    /\ results' = [results EXCEPT ![t] = status]
    /\ tasks' = [tasks EXCEPT ![t].state = "resulted"]

(***************************************************************************)
(* Worker: QuizWorker.run and QuizWorker._process_task.                    *)
(***************************************************************************)
\* the bound taken one attempt too early
RetriesExhausted_early(a, m) == a >= m

\* worker.py:222  `if attempt > self.max_retries`
RetriesExhausted(a, m) == a > m

\* worker.py:135  `if not task_id or raw_params is None`
MalformedTask(shape) == shape \in {"noid", "absent"}

\* LLMServiceError handled by the retry clause
Handler_retry_llm(exc) ==
    CASE exc = "FileNotFoundError" -> "nonretryable"
      [] IsQueueClientError(exc) \/ exc = "LLMServiceError" -> "retry"
      [] OTHER -> "unexpected"

\* worker.py:201-236: the except clause of the retry loop that takes exception
\* `exc`.  QueueNotFoundError and InvalidRequestError are QueueClientErrors.
Handler(exc) ==
    CASE exc \in {"LLMServiceError", "FileNotFoundError"} -> "nonretryable"
      [] IsQueueClientError(exc) -> "retry"
      [] OTHER -> "unexpected"

\* the body of the clause chosen, `a` being `attempt`: the observations and
\* the next position
HandleException(w, exc, obs, a) ==
    CASE Handler(exc) = "nonretryable" ->
           /\ wobs' = [wobs EXCEPT ![w] = [obs EXCEPT !.msg = [kind |-> "content", err |-> exc]]]
           /\ wpc' = [wpc EXCEPT ![w] = "fail"]
      [] Handler(exc) = "retry" ->
           IF RetriesExhausted(a, max_retries)
           THEN /\ wobs' = [wobs EXCEPT ![w] = [obs EXCEPT !.msg = [kind |-> "submit", err |-> exc]]]
                /\ wpc' = [wpc EXCEPT ![w] = "fail"]
           ELSE /\ wobs' = [wobs EXCEPT ![w] = obs]
                /\ wpc' = [wpc EXCEPT ![w] = "backoff"]
      [] OTHER ->
           /\ wobs' = [wobs EXCEPT ![w] = [obs EXCEPT !.msg = [kind |-> "unexpected", err |-> exc]]]
           /\ wpc' = [wpc EXCEPT ![w] = "fail"]

\* _save_result_to_file: the file of the page holds the page number and the
\* questions generated, as many as the provider is configured to give
save_result_to_file(files, page_num) ==
    [files EXCEPT ![page_num] = [kind |-> "valid", page |-> page_num, items |-> MaxItems]]

\* the history once worker w has invoked generation or submitted a result for
\* the task it holds
ProcessedBy(w) == [processed EXCEPT ![wtask[w]] = @ \cup {w}]

\* queue-not-found left to end the worker
AfterNoTask_notfound_fatal(out) == IF out = "QueueNotFoundError" THEN "crashed" ELSE "sleep"

\* run(), lines 94-108: `except QueueClientError` (which takes its subclasses
\* QueueNotFoundError and InvalidRequestError) and `if task is None` both
\* sleep poll_interval and continue
AfterNoTask(out) == IF out = "none" \/ IsQueueClientError(out) THEN "sleep" ELSE "crashed"

\* run(): one dequeue.  An error or an empty queue sleeps poll_interval.
run_dequeue(w) ==
    /\ wpc[w] = "poll"
    /\ \E resp \in DequeueResponses :
         LET out == dequeue_task(resp)
         IN IF out = "ok"
            THEN /\ tasks' = [tasks EXCEPT ![NextTask].state = "claimed"]
                 /\ wtask' = [wtask EXCEPT ![w] = NextTask]
                 /\ wpc' = [wpc EXCEPT ![w] = "decode"]
            ELSE /\ wpc' = [wpc EXCEPT ![w] = AfterNoTask(out)]
                 /\ UNCHANGED <<tasks, wtask>>
    /\ UNCHANGED <<faults, qc, rfiles, processed, results, attempt, wobs, max_retries, retry_backoff, pvars, mfile, avars>>

\* run(): time.sleep(self.poll_interval); continue
run_sleep(w) ==
    /\ wpc[w] = "sleep"
    /\ wpc' = [wpc EXCEPT ![w] = "poll"]
    /\ UNCHANGED <<faults, qc, rfiles, processed, tasks, results, wtask, attempt, wobs, max_retries, retry_backoff, pvars, mfile, avars>>

\* _process_task, lines 133-166: the checks before the retry loop
process_task_decode(w) ==
    /\ wpc[w] = "decode"
    /\ LET shape == tasks[wtask[w]].shape IN
         CASE MalformedTask(shape) ->
                \* logged, return: nothing is submitted
                /\ wpc' = [wpc EXCEPT ![w] = "return"]
                /\ UNCHANGED <<wobs, attempt>>
           [] shape = "undecodable" ->
                /\ wobs' = [wobs EXCEPT ![w].msg = [kind |-> "invalid_json", err |-> "none"]]
                /\ wpc' = [wpc EXCEPT ![w] = "fail"]
                /\ UNCHANGED attempt
           [] shape = "nonobject" ->
                \* json.loads succeeds, params.get raises AttributeError: it
                \* leaves _process_task and run(), main() exits with status 1
                /\ wpc' = [wpc EXCEPT ![w] = "crashed"]
                /\ UNCHANGED <<wobs, attempt>>
           [] shape = "missing_field" ->
                /\ wobs' = [wobs EXCEPT ![w].msg = [kind |-> "missing_params", err |-> "none"]]
                /\ wpc' = [wpc EXCEPT ![w] = "fail"]
                /\ UNCHANGED attempt
           [] OTHER ->
                /\ attempt' = [attempt EXCEPT ![w] = 0]
                /\ wpc' = [wpc EXCEPT ![w] = "generate"]
                /\ UNCHANGED wobs
    /\ UNCHANGED <<faults, qc, rfiles, processed, tasks, results, wtask, max_retries, retry_backoff, pvars, mfile, avars>>

\* _process_task, lines 179-183 and the handlers of 201 and 228: one pass of
\* the loop up to the submission
process_task_generate(w) ==
    /\ wpc[w] = "generate"
    /\ attempt' = [attempt EXCEPT ![w] = @ + 1]
    /\ \E g \in GenOutcomes :
         LET called == [wobs[w] EXCEPT !.gen = @ + 1,
                                       !.after = IF wobs[w].genErr # "none" THEN @ + 1 ELSE @]
         IN IF g = "ok"
            THEN /\ wobs' = [wobs EXCEPT ![w] = [called EXCEPT !.writes = @ + 1]]
                 /\ rfiles' = save_result_to_file(rfiles, tasks[wtask[w]].page)
                 /\ wpc' = [wpc EXCEPT ![w] = "submit"]
            ELSE /\ HandleException(w, g, [called EXCEPT !.genErr = g], attempt[w] + 1)
                 /\ UNCHANGED rfiles
    /\ processed' = ProcessedBy(w)
    /\ UNCHANGED <<faults, qc, tasks, results, wtask, max_retries, retry_backoff, pvars, mfile, avars>>

\* a FAILURE reported after the SUCCESS submission was answered
AfterSuccess_reports_failure == "fail"

\* worker.py:200  `break`: the task is done once submit_result has returned
AfterSuccess == "return"

\* _process_task, lines 194-200 and the handler of 211: the SUCCESS submission
process_task_submit(w) ==
    /\ wpc[w] = "submit"
    /\ \E resp \in WriteResponsesTo("worker") :
         LET out == submit_result(resp) IN
         /\ IF Applied(resp) THEN StoreResult(wtask[w], "SUCCESS")
                             ELSE UNCHANGED <<tasks, results>>
         /\ LET called == [wobs[w] EXCEPT !.succ = @ + 1,
                                          !.after = IF wobs[w].genErr # "none" THEN @ + 1 ELSE @]
            IN IF out = "ok"
               THEN /\ wobs' = [wobs EXCEPT ![w] = [called EXCEPT !.succOk = @ + 1]]
                    /\ wpc' = [wpc EXCEPT ![w] = AfterSuccess]
               ELSE HandleException(w, out, [called EXCEPT !.lastErr = out], attempt[w])
    /\ processed' = ProcessedBy(w)
    /\ UNCHANGED <<faults, qc, rfiles, wtask, attempt, max_retries, retry_backoff, pvars, mfile, avars>>

\* the retry made by going back to the queue for the task
AfterBackoff_redequeue == "poll"

\* worker.py:178-180: after the sleep the `while True` of _process_task takes
\* its next pass, on the task it holds
AfterBackoff == "generate"

\* the same delay before every retry
sleep_for_constant(unit, a) == unit

\* worker.py:225  `sleep_for = self.retry_backoff * attempt`
sleep_for(unit, a) == unit * a

\* _process_task, lines 225-227: time.sleep(sleep_for)
process_task_backoff(w) ==
    /\ wpc[w] = "backoff"
    /\ wobs' = [wobs EXCEPT ![w].delays = Append(@, sleep_for(retry_backoff, attempt[w]))]
    /\ wpc' = [wpc EXCEPT ![w] = AfterBackoff]
    /\ UNCHANGED <<faults, qc, rfiles, processed, tasks, results, wtask, attempt, max_retries, retry_backoff, pvars, mfile, avars>>

\* _submit_failure: one FAILURE submission, its own failure only logged
submit_failure(w) ==
    /\ wpc[w] = "fail"
    /\ \E resp \in WriteResponsesTo("worker") :
         /\ IF Applied(resp) THEN StoreResult(wtask[w], "FAILURE")
                             ELSE UNCHANGED <<tasks, results>>
         /\ wobs' = [wobs EXCEPT ![w].fail = @ + 1]
         /\ wpc' = [wpc EXCEPT ![w] = "return"]
    /\ processed' = ProcessedBy(w)
    /\ UNCHANGED <<faults, qc, rfiles, wtask, attempt, max_retries, retry_backoff, pvars, mfile, avars>>

\* run(), line 110: _process_task has returned, its task and locals are gone
\* (and with them what was observed of the task); the loop goes on
process_task_return(w) ==
    /\ wpc[w] = "return"
    /\ wpc' = [wpc EXCEPT ![w] = "poll"]
    /\ wtask' = [wtask EXCEPT ![w] = NoTask]
    /\ attempt' = [attempt EXCEPT ![w] = 0]
    /\ wobs' = [wobs EXCEPT ![w] = NoObs]
    /\ UNCHANGED <<faults, qc, rfiles, processed, tasks, results, max_retries, retry_backoff, pvars, mfile, avars>>

\* run(), lines 111-112: KeyboardInterrupt, raised wherever the worker is,
\* ends the loop; the task it holds is left as it is
run_interrupt(w) ==
    /\ wpc[w] \notin {"crashed", "stopped"}
    /\ wpc' = [wpc EXCEPT ![w] = "stopped"]
    /\ UNCHANGED <<faults, qc, rfiles, processed, tasks, results, wtask, attempt, wobs, max_retries, retry_backoff, pvars, mfile, avars>>

WorkerNext(w) ==
    \/ run_dequeue(w)
    \/ run_sleep(w)
    \/ process_task_decode(w)
    \/ process_task_generate(w)
    \/ process_task_submit(w)
    \/ process_task_backoff(w)
    \/ submit_failure(w)
    \/ process_task_return(w)

(***************************************************************************)
(* Producer: PDFProducer.process_pdf and PDFProducer._save_metadata.       *)
(***************************************************************************)
PdfKinds == {"missing", "not_file", "not_pdf", "corrupt", "ok"}

\* the ids the service may give the queue it creates
QueueIds == {"q1", "q2"}

NoMeta == [pdf_id |-> "none", queue_id |-> "none", total_pages |-> 0, task_ids |-> <<>>]

NoFile == [state |-> "absent", data |-> NoMeta]

\* the id the service gives the next task it accepts, q being its tasks
NewTaskId(q) == CHOOSE t \in TaskIds :
                    /\ q[t].state = "absent"
                    /\ \A u \in TaskIds : u < t => q[u].state # "absent"

\* the tasks of the service once it has accepted one more
CreateTask(q, page, prio) ==
    [q EXCEPT ![NewTaskId(q)] =
        [state |-> "pending", prio |-> prio, page |-> page, shape |-> "wellformed"]]

\* priority inverted: later pages served first
Priority_negated(page_num) == 0 - page_num

\* producer.py:123  `priority=page_num`
Priority(page_num) == page_num

\* the id put in front of the list
AfterEnqueue_prepend(ids, out, id) == IF out = "ok" THEN <<id>> \o ids ELSE ids

\* producer.py:119-133: task_ids after one enqueue call; an exception is
\* printed and the page skipped
AfterEnqueue(ids, out, id) == IF out = "ok" THEN Append(ids, id) ELSE ids

\* the manifest counting the accepted tasks instead of the pages
Metadata_counting_tasks(l) ==
    [pdf_id |-> l.pdf_id, queue_id |-> l.queue_id,
     total_pages |-> Len(l.task_ids), task_ids |-> l.task_ids]

\* producer.py:171-178: the manifest built from the locals of process_pdf
Metadata(l) ==
    [pdf_id |-> l.pdf_id, queue_id |-> l.queue_id,
     total_pages |-> l.total_pages, task_ids |-> l.task_ids]

\* the exception swallowed: the run goes on to the manifest write
PAbort_swallowed(exc) ==
    /\ ppc' = "save_open"
    /\ pobs' = [pobs EXCEPT !.err = exc]

\* an exception leaves process_pdf: main() prints it and exits with status 1
PAbort(exc) ==
    /\ ppc' = "aborted"
    /\ pobs' = [pobs EXCEPT !.err = exc]

\* validation without the check of the file's content
Validate_path_only(kind) ==
    CASE kind = "missing" -> "FileNotFoundError"
      [] kind \in {"not_file", "not_pdf"} -> "ValueError"
      [] OTHER -> "ok"

\* producer.py:71-77: _validate_pdf_path, then validate_pdf
Validate(kind) ==
    CASE kind = "missing" -> "FileNotFoundError"
      [] kind \in {"not_file", "not_pdf", "corrupt"} -> "ValueError"
      [] OTHER -> "ok"

\* a failed enqueue made again for the same page
NextPage_retry_failed(page_num, out) == IF out = "ok" THEN page_num + 1 ELSE page_num

\* producer.py:108  `for page_num, page_path in enumerate(image_paths, start=1)`:
\* the next page, whatever became of the enqueue
NextPage(page_num, out) == page_num + 1

\* the manifest written after the first pass of the loop
AfterEnqueueLoop_first_pass(page_num, pages) == "save_open"

\* producer.py:108 and 139: the loop goes on while there is a page image
\* left, then _save_metadata is called
AfterEnqueueLoop(page_num, pages) == IF page_num > pages THEN "save_open" ELSE "enqueue"

\* the job id returned instead of the queue id
ReturnValue_pdf_id(l) == l.pdf_id

\* producer.py:148  `return queue_id`
ReturnValue(l) == l.queue_id

\* lines 70-84: _validate_pdf_path, validate_pdf, get_pdf_page_count, uuid4
process_pdf_validate ==
    /\ ppc = "start"
    /\ IF Validate(pdf.kind) # "ok"
       THEN PAbort(Validate(pdf.kind)) /\ UNCHANGED plocal
       ELSE /\ plocal' = [plocal EXCEPT !.total_pages = pdf.pages, !.pdf_id = "job1"]
            /\ ppc' = "create_queue"
            /\ UNCHANGED pobs
    /\ UNCHANGED <<faults, qc, rfiles, processed, tasks, results, wvars, pdf, mfile, avars>>

\* lines 86-90: create_queue; its exception leaves process_pdf
process_pdf_create_queue ==
    /\ ppc = "create_queue"
    /\ \E resp \in WriteResponsesTo("producer") :
         LET out == create_queue(resp) IN
         IF out = "ok"
         THEN \E q \in QueueIds :
              /\ plocal' = [plocal EXCEPT !.queue_id = q]
              /\ pobs' = [pobs EXCEPT !.creates = @ + 1, !.queue = q]
              /\ ppc' = "split"
         ELSE /\ ppc' = "aborted"
              /\ pobs' = [pobs EXCEPT !.creates = @ + 1, !.err = out]
              /\ UNCHANGED plocal
    /\ UNCHANGED <<faults, qc, rfiles, processed, tasks, results, wvars, pdf, mfile, avars>>

\* lines 92-102: split_pdf_to_images gives one image per page or raises
process_pdf_split ==
    /\ ppc = "split"
    /\ \/ /\ plocal' = [plocal EXCEPT !.page_num = 1]
          /\ ppc' = AfterEnqueueLoop(1, pdf.pages)
          /\ UNCHANGED pobs
       \/ /\ PAbort("RuntimeError")
          /\ UNCHANGED plocal
    /\ UNCHANGED <<faults, qc, rfiles, processed, tasks, results, wvars, pdf, mfile, avars>>

\* lines 108-133: one pass of the loop over the page images, the service
\* answering `resp`; st holds the service's tasks and the producer's locals
\* and observations before the pass, the value those after it
EnqueueStep(st, resp) ==
    LET out == enqueue_task(resp)
        page == st.plocal.page_num
        prio == Priority(page)
        id == IF out = "ok" THEN NewTaskId(st.tasks) ELSE NoTask
    IN [tasks |-> IF Applied(resp) THEN CreateTask(st.tasks, page, prio) ELSE st.tasks,
        plocal |-> [st.plocal EXCEPT !.task_ids = AfterEnqueue(@, out, id),
                                     !.page_num = NextPage(@, out)],
        pobs |-> [st.pobs EXCEPT !.enq = Append(@, [queue |-> st.plocal.queue_id,
                                                    page |-> page, prio |-> prio,
                                                    out |-> out, id |-> id])]]

process_pdf_enqueue ==
    /\ ppc = "enqueue"
    /\ \E resp \in WriteResponsesTo("producer") :
         LET st == EnqueueStep([tasks |-> tasks, plocal |-> plocal, pobs |-> pobs], resp)
         IN /\ tasks' = st.tasks
            /\ plocal' = st.plocal
            /\ pobs' = st.pobs
            /\ ppc' = AfterEnqueueLoop(st.plocal.page_num, pdf.pages)
    /\ UNCHANGED <<faults, qc, rfiles, processed, results, wvars, pdf, mfile, avars>>

\* _save_metadata, line 183: open(metadata_path, 'w') creates the file empty
save_metadata_open ==
    /\ ppc = "save_open"
    /\ mfile' = [state |-> "empty", data |-> NoMeta]
    /\ ppc' = "save_dump"
    /\ UNCHANGED <<faults, qc, rfiles, processed, tasks, results, wvars, pdf, plocal, pobs, avars>>

\* _save_metadata, line 184: json.dump writes through the file's buffer, which
\* may or may not have passed a first part of the text to the file
save_metadata_dump ==
    /\ ppc = "save_dump"
    /\ \E st \in {"empty", "partial"} : mfile' = [state |-> st, data |-> NoMeta]
    /\ ppc' = "save_close"
    /\ UNCHANGED <<faults, qc, rfiles, processed, tasks, results, wvars, pdf, plocal, pobs, avars>>

\* _save_metadata, leaving `with`: the file holds the whole manifest;
\* process_pdf returns queue_id
save_metadata_close ==
    /\ ppc = "save_close"
    /\ mfile' = [state |-> "complete", data |-> Metadata(plocal)]
    /\ pobs' = [pobs EXCEPT !.writes = @ + 1, !.ret = ReturnValue(plocal)]
    /\ ppc' = "done"
    /\ UNCHANGED <<faults, qc, rfiles, processed, tasks, results, wvars, pdf, plocal, avars>>

ProducerNext ==
    \/ process_pdf_validate
    \/ process_pdf_create_queue
    \/ process_pdf_split
    \/ process_pdf_enqueue
    \/ save_metadata_open
    \/ save_metadata_dump
    \/ save_metadata_close

(***************************************************************************)
(* Aggregator: QuizAggregator.aggregate and its helpers.                   *)
(***************************************************************************)
\* _load_metadata: the manifest of a pdf_id, or the exception raised
load_metadata(f) ==
    CASE f.state = "absent" -> [err |-> "FileNotFoundError", data |-> NoMeta]
      [] f.state \in {"empty", "partial"} -> [err |-> "JSONDecodeError", data |-> NoMeta]
      [] OTHER -> [err |-> "none", data |-> f.data]

\* _find_metadata_for_queue: the first readable manifest of the directory that
\* names the queue; an unreadable file is passed over
find_metadata_for_queue(f, queue_id) ==
    IF f.state = "complete" /\ f.data.queue_id = queue_id
    THEN [err |-> "none", data |-> f.data]
    ELSE [err |-> "FileNotFoundError", data |-> NoMeta]

\* aggregator.py:92 with the total_pages the manifest also records
ExpectedCount_total_pages(meta) == meta.total_pages

\* aggregator.py:92  `expected_count = len(task_ids)`
ExpectedCount(meta) == Len(meta.task_ids)

\* status: the outcome of the latest get_queue_status call and its counts
NoStatus == [kind |-> "none", pending |-> 0, completed |-> 0]

\* success_rate as the fraction it is computed from
NoStats == [total_questions |-> 0, pages_processed |-> 0,
            success_rate |-> [num |-> 0, den |-> 1]]

\* i: position of the collection loop; fetched: the get_result calls made and
\* their outcomes; results: the list _collect_all_results builds; j: position
\* of the merge loop; loads: per result loaded the file read and the questions
\* it gave; all_questions: the page tag of every question merged; deck: the
\* rows written after the header; stats: what _generate_statistics returned
NoLocal == [mode |-> "none", meta |-> NoMeta, err |-> "none", expected_count |-> 0,
            backoff |-> 1, status |-> NoStatus,
            i |-> 1, fetched |-> <<>>, results |-> <<>>,
            j |-> 1, loads |-> <<>>, all_questions |-> <<>>,
            deck |-> [written |-> FALSE, rows |-> <<>>], stats |-> NoStats]

\* aggregator.py:190  `max_backoff = 30.0`
max_backoff == 30

\* what GET /queue/{id}/status reports: tasks without a result, and results
QueueStatus ==
    [kind |-> "ok",
     pending |-> Cardinality({t \in TaskIds : tasks[t].state \in {"pending", "claimed"}}),
     completed |-> Cardinality({t \in TaskIds : tasks[t].state = "resulted"})]

\* completion taken from the number of tasks, resulted or not
Complete_all_accounted(status, expected_count) ==
    status.pending + status.completed = expected_count

\* completion at the first poll without pending tasks
Complete_no_pending(status, expected_count) == status.pending = 0

\* aggregator.py:228  `if pending == 0 and completed == expected_count`
Complete(status, expected_count) ==
    status.pending = 0 /\ status.completed = expected_count

\* aggregate(), lines 80-92: resolve the manifest by pdf_id or by queue_id
aggregate_resolve ==
    /\ apc = "start"
    /\ \E mode \in {"pdf_id", "queue_id"}, q \in QueueIds :
         LET got == IF mode = "pdf_id" THEN load_metadata(mfile)
                    ELSE find_metadata_for_queue(mfile, q)
         IN IF got.err = "none"
            THEN \* pdf_id and queue_id are both known from here on, whichever
                 \* of them was given
                 /\ alocal' = [alocal EXCEPT !.meta = got.data,
                                             !.expected_count = ExpectedCount(got.data)]
                 /\ apc' = "wait"
            ELSE /\ alocal' = [alocal EXCEPT !.mode = mode, !.err = got.err]
                 /\ apc' = "aborted"
    /\ UNCHANGED <<faults, qc, rfiles, processed, tasks, results, wvars, pvars, mfile>>

\* the delay one second longer after each sleep
NextBackoff_linear(backoff) == IF backoff + 1 < max_backoff THEN backoff + 1 ELSE max_backoff

\* aggregator.py:213 and 233  `backoff = min(max_backoff, backoff * 2)`
NextBackoff(backoff) == IF backoff * 2 < max_backoff THEN backoff * 2 ELSE max_backoff

\* _wait_for_completion, lines 198-230: one status poll and its decision
wait_for_completion_poll ==
    /\ apc = "wait"
    /\ \E resp \in ReadResponsesTo("aggregator") :
         LET out == get_queue_status(resp) IN
         CASE out = "QueueNotFoundError" ->
                \* re-raised as QueueClientError: aggregate() is left, the
                \* backoff of _wait_for_completion gone with it
                /\ alocal' = [alocal EXCEPT !.status = [NoStatus EXCEPT !.kind = out],
                                            !.err = "QueueClientError", !.backoff = 1]
                /\ apc' = "aborted"
           [] out # "ok" /\ IsQueueClientError(out) ->
                /\ alocal' = [alocal EXCEPT !.status = [NoStatus EXCEPT !.kind = out]]
                /\ apc' = "wait_sleep"
           [] OTHER ->
                IF Complete(QueueStatus, alocal.expected_count)
                THEN \* _wait_for_completion returns: its backoff is gone
                     /\ alocal' = [alocal EXCEPT !.status = QueueStatus, !.backoff = 1]
                     /\ apc' = "collect"
                ELSE /\ alocal' = [alocal EXCEPT !.status = QueueStatus]
                     /\ apc' = "wait_sleep"
    /\ UNCHANGED <<faults, qc, rfiles, processed, tasks, results, wvars, pvars, mfile>>

\* _wait_for_completion, lines 212-213 and 232-233: sleep, then double the
\* delay up to max_backoff; the status polled is not looked at again
wait_for_completion_sleep ==
    /\ apc = "wait_sleep"
    /\ alocal' = [alocal EXCEPT !.backoff = NextBackoff(@), !.status = NoStatus]
    /\ apc' = "wait"
    /\ UNCHANGED <<faults, qc, rfiles, processed, tasks, results, wvars, pvars, mfile>>

\* the result the service holds for task t: the worker submitted the path of
\* the page's result file with SUCCESS (worker.py:194-199) and a diagnostic
\* with FAILURE (worker.py:271-276)
ResultOf(t) ==
    [id |-> t, status |-> results[t],
     output |-> IF results[t] = "SUCCESS"
                THEN [kind |-> "path", page |-> tasks[t].page]
                ELSE [kind |-> "message", page |-> 0]]

\* what the service can answer to a get-result for task t
GetResultResponses(t) ==
    {IF results[t] = "none" THEN "r404" ELSE "r200"}
        \cup (ReadResponsesTo("aggregator") \ {"r200"})

\* a result handed out once and then gone
AfterGetResult_consumed(res, t, resp) ==
    IF resp = "r200" THEN [res EXCEPT ![t] = "none"] ELSE res

\* the results the service stores once it has answered a get-result for
\* task t: the request reads, it stores nothing
AfterGetResult(res, t, resp) == res

\* every call made for the first id of the manifest
CollectOrder_first_again(task_ids, i) == task_ids[1]

\* collection going through the manifest from its end
CollectOrder_reversed(task_ids, i) == task_ids[Len(task_ids) + 1 - i]

\* aggregator.py:245  `for task_id in task_ids`: the i-th id fetched
CollectOrder(task_ids, i) == task_ids[i]

\* a skipped task standing in the list as an empty result
AfterFetch_keep_absent(collected, out, result) ==
    Append(collected, IF out = "ok" THEN result
                      ELSE [result EXCEPT !.status = "none",
                                          !.output = [kind |-> "message", page |-> 0]])

\* aggregator.py:246-263: the list after one get_result call: an error or an
\* absent result is logged and skipped
AfterFetch(collected, out, result) ==
    IF out = "ok" THEN Append(collected, result) ELSE collected

\* where aggregate() goes once a loop over `n` entries is at its end
LoopEnd(n, pos, inside, after) == IF pos > n THEN after ELSE inside

\* _collect_all_results: entered; nothing is fetched for an empty manifest
collect_all_results_enter ==
    /\ apc = "collect"
    /\ alocal' = [alocal EXCEPT !.status = NoStatus, !.i = 1]
    /\ apc' = LoopEnd(Len(alocal.meta.task_ids), 1, "fetch", "merge")
    /\ UNCHANGED <<faults, qc, rfiles, processed, tasks, results, wvars, pvars, mfile>>

\* _collect_all_results, lines 245-263: one get_result call
collect_all_results_fetch ==
    /\ apc = "fetch"
    /\ LET t == CollectOrder(alocal.meta.task_ids, alocal.i) IN
       \E resp \in GetResultResponses(t) :
         LET out == get_result(resp) IN
         /\ alocal' = [alocal EXCEPT
                          !.fetched = Append(@, [id |-> t, out |-> out]),
                          !.results = AfterFetch(@, out, ResultOf(t)),
                          !.i = @ + 1]
         /\ results' = AfterGetResult(results, t, resp)
         /\ apc' = LoopEnd(Len(alocal.meta.task_ids), alocal.i + 1, "fetch", "merge")
    /\ UNCHANGED <<faults, qc, rfiles, processed, tasks, wvars, pvars, mfile>>

\* the states a result file may be read in
FileKinds == {"absent", "undecodable", "nonobject", "bad_questions", "valid",
              "invalid_item", "nondict_item"}

\* what can have become of a file: removed, cut short, replaced by JSON that
\* is no object, its "questions" no list, one item without a string
\* question/answer, one item no object
Damage == FileKinds \ {"valid"}

Damaged(file, d) == IF file.kind = "valid" THEN [file EXCEPT !.kind = d] ELSE file

\* the file a result's output names, as a read can find it
ReadsOf(result) ==
    IF result.output.kind = "path"
    THEN LET file == rfiles[result.output.page]
         IN {file} \cup {Damaged(file, d) : d \in faults["fs"] \cap Damage}
    ELSE {[kind |-> "absent", page |-> 0, items |-> 0]}

\* every item of the payload kept
Normalized_keeps_all(file) ==
    CASE file.kind \in {"valid", "invalid_item"} -> file.items
      [] OTHER -> 0

\* aggregator.py:312-323: the questions kept of a payload: those with a string
\* question and a string answer
Normalized(file) ==
    CASE file.kind = "valid" -> file.items
      [] file.kind = "invalid_item" -> file.items - 1
      [] OTHER -> 0

\* _load_questions_from_result: the rows (page tags) one result gives, or the
\* exception raised.  The status of the result is not looked at: an output
\* that names no file gives no rows.
load_questions_from_result(result, file) ==
    CASE result.output.kind # "path" -> [err |-> "none", rows |-> <<>>]
      [] file.kind \in {"absent", "undecodable", "bad_questions"} ->
           [err |-> "none", rows |-> <<>>]
      [] file.kind \in {"nonobject", "nondict_item"} ->
           \* payload.get / item.get on a value that is no dict
           [err |-> "AttributeError", rows |-> <<>>]
      [] OTHER -> [err |-> "none", rows |-> [k \in 1..Normalized(file) |-> file.page]]

\* aggregate(), lines 108-111: nothing to load for an empty list
merge_enter ==
    /\ apc = "merge"
    /\ alocal' = [alocal EXCEPT !.j = 1]
    /\ apc' = LoopEnd(Len(alocal.results), 1, "load", "csv")
    /\ UNCHANGED <<faults, qc, rfiles, processed, tasks, results, wvars, pvars, mfile>>

\* aggregate(), lines 109-111: one result loaded and its questions appended
merge_load ==
    /\ apc = "load"
    /\ LET r == alocal.results[alocal.j] IN
       \E file \in ReadsOf(r) :
         LET got == load_questions_from_result(r, file) IN
         IF got.err # "none"
         THEN /\ alocal' = [alocal EXCEPT !.err = got.err]
              /\ apc' = "aborted"
         ELSE /\ alocal' = [alocal EXCEPT
                               !.loads = Append(@, [id |-> r.id, status |-> r.status,
                                                    file |-> file,
                                                    rows |-> Len(got.rows)]),
                               !.all_questions = @ \o got.rows,
                               !.j = @ + 1]
              /\ apc' = LoopEnd(Len(alocal.results), alocal.j + 1, "load", "csv")
    /\ UNCHANGED <<faults, qc, rfiles, processed, tasks, results, wvars, pvars, mfile>>

\* _generate_anki_csv: the header, then one row per question, in list order
generate_anki_csv ==
    /\ apc = "csv"
    /\ alocal' = [alocal EXCEPT !.deck = [written |-> TRUE, rows |-> alocal.all_questions]]
    /\ apc' = "stats"
    /\ UNCHANGED <<faults, qc, rfiles, processed, tasks, results, wvars, pvars, mfile>>

\* the rate divided by the expected count whatever it is
Statistics_unguarded(questions, total_expected_pages) ==
    LET tags == {questions[k] : k \in 1..Len(questions)} IN
    [total_questions |-> Len(questions),
     pages_processed |-> Cardinality(tags),
     success_rate |-> [num |-> Cardinality(tags), den |-> total_expected_pages]]

\* the rate taken over the questions instead of the pages
Statistics_per_question(questions, total_expected_pages) ==
    [total_questions |-> Len(questions),
     pages_processed |-> Len(questions),
     success_rate |-> IF total_expected_pages > 0
                      THEN [num |-> Len(questions), den |-> total_expected_pages]
                      ELSE [num |-> 0, den |-> 1]]

\* _generate_statistics: distinct page tags over the expected count
Statistics(questions, total_expected_pages) ==
    LET tags == {questions[k] : k \in 1..Len(questions)} IN
    [total_questions |-> Len(questions),
     pages_processed |-> Cardinality(tags),
     success_rate |-> IF total_expected_pages > 0
                      THEN [num |-> Cardinality(tags), den |-> total_expected_pages]
                      ELSE [num |-> 0, den |-> 1]]

\* aggregate(), lines 117-126: statistics, then the deck path is returned
generate_statistics ==
    /\ apc = "stats"
    /\ alocal' = [alocal EXCEPT !.stats = Statistics(alocal.all_questions,
                                                     alocal.expected_count)]
    /\ apc' = "done"
    /\ UNCHANGED <<faults, qc, rfiles, processed, tasks, results, wvars, pvars, mfile>>

AggregatorNext ==
    \/ aggregate_resolve
    \/ wait_for_completion_poll
    \/ wait_for_completion_sleep
    \/ collect_all_results_enter
    \/ collect_all_results_fetch
    \/ merge_enter
    \/ merge_load
    \/ generate_anki_csv
    \/ generate_statistics

(***************************************************************************)
(* The main() of each script: the exit status for the exception that left  *)
(* its `try` block.                                                        *)
(***************************************************************************)
\* the exceptions that leave process_pdf, run() and aggregate()
Exceptions == Errors \cup {"FileNotFoundError", "ValueError", "JSONDecodeError",
                           "RuntimeError", "AttributeError"}

\* json.JSONDecodeError is a ValueError
IsValueError(exc) == exc \in {"ValueError", "JSONDecodeError"}

\* producer.py:299-312: FileNotFoundError, ValueError, Exception
main_producer(exc) ==
    CASE exc = "FileNotFoundError" -> 1
      [] IsValueError(exc) -> 1
      [] OTHER -> 1

\* worker.py:323-328: FileNotFoundError, Exception
main_worker(exc) ==
    CASE exc = "FileNotFoundError" -> 1
      [] OTHER -> 1

\* aggregator.py:433-441: FileNotFoundError, QueueClientError, Exception
main_aggregator(exc) ==
    CASE exc = "FileNotFoundError" -> 1
      [] IsQueueClientError(exc) -> 1
      [] OTHER -> 1

(***************************************************************************)
(* One worker against a queue that already holds tasks of every shape.     *)
(***************************************************************************)
\* no lone client call in sight
NoCall == [op |-> "none", resp |-> "none", out |-> "none", calls |-> 0]

\* no result file written
NoFiles == [p \in TaskIds |-> [kind |-> "absent", page |-> 0, items |-> 0]]

\* no task processed by any worker
NoneProcessed == [t \in TaskIds |-> {}]

InitWorkers ==
    /\ qc = NoCall
    /\ processed = NoneProcessed
    /\ wpc = [w \in Workers |-> "poll"]
    /\ wtask = [w \in Workers |-> NoTask]
    /\ attempt = [w \in Workers |-> 0]
    /\ wobs = [w \in Workers |-> NoObs]

NoPLocal == [pdf_id |-> "none", queue_id |-> "none", total_pages |-> 0, page_num |-> 0,
             task_ids |-> <<>>]

\* enq: the enqueue calls made; creates: create_queue calls made; queue: the
\* id create_queue returned; writes: manifests written; err: the exception
\* that left process_pdf; ret: what process_pdf returned
NoPObs == [enq |-> <<>>, creates |-> 0, queue |-> "none", writes |-> 0, err |-> "none",
           ret |-> "none"]

\* no producer run in sight: nothing submitted, no manifest
InitProducerIdle ==
    /\ ppc = "idle"
    /\ pdf = [kind |-> "ok", pages |-> 0]
    /\ plocal = NoPLocal
    /\ pobs = NoPObs
    /\ mfile = NoFile

InitAggregator ==
    /\ apc = "start"
    /\ alocal = NoLocal

InitWorker ==
    /\ faults = [NoFaults EXCEPT !["worker"] = Failures, !["llm"] = GenFailures]
    /\ rfiles = NoFiles
    /\ \E shapes \in [TaskIds -> Shapes] :
         /\ \A t \in TaskIds : t > MaxPreloaded => shapes[t] = "wellformed"
         /\ tasks = [t \in TaskIds |->
                        [state |-> IF t <= MaxPreloaded THEN "pending" ELSE "absent",
                         prio |-> t, page |-> t, shape |-> shapes[t]]]
    /\ results = [t \in TaskIds |-> "none"]
    /\ InitWorkers
    /\ max_retries \in 0..MaxRetries
    /\ retry_backoff \in 1..MaxUnit
    /\ InitProducerIdle
    /\ apc = "idle" /\ alocal = NoLocal

NextWorker == WorkerNext("w1")

SpecWorker == InitWorker /\ [][NextWorker]_vars

\* the worker's process keeps running: each request returns within its
\* timeout and each sleep ends
SpecWorkerFair == SpecWorker /\ WF_vars(NextWorker)

(***************************************************************************)
(* One producer run, and an aggregator started at any moment of it.        *)
(***************************************************************************)
InitProducer ==
    /\ faults = [NoFaults EXCEPT !["producer"] = Failures]
    /\ rfiles = NoFiles
    /\ tasks = [t \in TaskIds |->
                   [state |-> "absent", prio |-> 0, page |-> 0, shape |-> "wellformed"]]
    /\ results = [t \in TaskIds |-> "none"]
    /\ InitWorkers
    /\ max_retries = 0
    /\ retry_backoff = 1
    /\ ppc = "start"
    /\ pdf \in [kind : PdfKinds, pages : 1..MaxTasks]
    /\ plocal = NoPLocal
    /\ pobs = NoPObs
    /\ mfile = NoFile
    /\ InitAggregator

NextProducer == ProducerNext \/ aggregate_resolve

SpecProducer == InitProducer /\ [][NextProducer]_vars

(***************************************************************************)
(* After a producer run that wrote its manifest: one worker serving the    *)
(* queue and one aggregator.                                               *)
(***************************************************************************)
NoTasks == [t \in TaskIds |->
               [state |-> "absent", prio |-> 0, page |-> 0, shape |-> "wellformed"]]

RECURSIVE AfterEnqueues(_, _)
\* the enqueue loop run over the service's answers, one per page
AfterEnqueues(st, resps) ==
    IF resps = <<>> THEN st
    ELSE AfterEnqueues(EnqueueStep(st, Head(resps)), Tail(resps))

\* the service's tasks and the producer's locals after the enqueue loop of a
\* run on a PDF of n pages
ProducerRun(n, resps) ==
    AfterEnqueues(
        [tasks |-> NoTasks,
         plocal |-> [NoPLocal EXCEPT !.pdf_id = "job1", !.queue_id = "q1",
                                     !.total_pages = n, !.page_num = 1],
         pobs |-> [NoPObs EXCEPT !.creates = 1, !.queue = "q1"]],
        resps)

\* process_pdf run to its return on a PDF of n pages
ProducerDone(n, resps) ==
    LET st == ProducerRun(n, resps)
    IN /\ tasks = st.tasks
       /\ plocal = st.plocal
       /\ pobs = [st.pobs EXCEPT !.writes = 1, !.ret = "q1"]
       /\ mfile = [state |-> "complete", data |-> Metadata(st.plocal)]
       /\ pdf = [kind |-> "ok", pages |-> n]
       /\ ppc = "done"

\* the worker is configured for one retry and meets server errors and
\* generation-service errors only: its failure handling is the subject of
\* SpecWorker; the aggregator meets queue-not-found and server errors: its
\* handling of the other failures is the subject of SpecAggregate
InitPipeline ==
    /\ faults = [NoFaults EXCEPT !["aggregator"] = {"r404", "r500"}, !["worker"] = {"r500"},
                                 !["llm"] = {"LLMServiceError"}]
    /\ rfiles = NoFiles
    /\ \E n \in 1..MaxTasks :
         \E resps \in [1..n -> {"r200", "late", "timeout"}] : ProducerDone(n, resps)
    /\ results = [t \in TaskIds |-> "none"]
    /\ InitWorkers
    /\ max_retries = 1
    /\ retry_backoff = 1
    /\ InitAggregator

NextPipeline == WorkerNext("w1") \/ AggregatorNext

SpecPipeline == InitPipeline /\ [][NextPipeline]_vars

(***************************************************************************)
(* After a producer run whose enqueues were all answered: two workers on   *)
(* the queue, each of which may be interrupted.                            *)
(***************************************************************************)
InitFleet ==
    /\ faults = [NoFaults EXCEPT !["worker"] = {"r500"}, !["llm"] = {"LLMServiceError"}]
    /\ rfiles = NoFiles
    /\ \E n \in 1..MaxTasks : ProducerDone(n, [k \in 1..n |-> "r200"])
    /\ results = [t \in TaskIds |-> "none"]
    /\ InitWorkers
    /\ max_retries = 1
    /\ retry_backoff = 1
    /\ apc = "idle" /\ alocal = NoLocal

NextFleet == \E w \in Workers : WorkerNext(w) \/ run_interrupt(w)

SpecFleet == InitFleet /\ [][NextFleet]_vars

(***************************************************************************)
(* A producer run on a valid PDF, some of its enqueues lost, and two        *)
(* workers started on its queue while it is still enqueueing.              *)
(***************************************************************************)
InitConcurrent ==
    /\ faults = [NoFaults EXCEPT !["producer"] = {"timeout"}, !["worker"] = {"r500"}]
    /\ rfiles = NoFiles
    /\ tasks = NoTasks
    /\ results = [t \in TaskIds |-> "none"]
    /\ InitWorkers
    /\ max_retries = 1
    /\ retry_backoff = 1
    /\ ppc = "start"
    /\ pdf \in [kind : {"ok"}, pages : 1..MaxTasks]
    /\ plocal = NoPLocal
    /\ pobs = NoPObs
    /\ mfile = NoFile
    /\ apc = "idle" /\ alocal = NoLocal

NextConcurrent == ProducerNext \/ \E w \in Workers : WorkerNext(w)

SpecConcurrent == InitConcurrent /\ [][NextConcurrent]_vars

(***************************************************************************)
(* After a producer run some of whose enqueues the service accepted while  *)
(* their answers were lost: one worker that keeps running, meeting server  *)
(* errors and generation failures, and an aggregator whose polls are all   *)
(* answered, waiting for the job.                                          *)
(***************************************************************************)
InitLate ==
    /\ faults = [NoFaults EXCEPT !["worker"] = {"r500"}, !["llm"] = {"LLMServiceError"}]
    /\ rfiles = NoFiles
    /\ \E n \in 1..MaxTasks :
         \E resps \in [1..n -> {"r200", "late"}] : ProducerDone(n, resps)
    /\ results = [t \in TaskIds |-> "none"]
    /\ InitWorkers
    /\ max_retries = 1
    /\ retry_backoff = 1
    /\ InitAggregator

WaitNext ==
    \/ aggregate_resolve
    \/ wait_for_completion_poll
    \/ wait_for_completion_sleep

NextLate == WorkerNext("w1") \/ WaitNext

\* both processes keep running: requests return within their timeout and
\* sleeps end; and the service stays reachable: a worker that keeps polling
\* while a task is pending is served one
SpecLate ==
    /\ InitLate /\ [][NextLate]_vars
    /\ WF_vars(WorkerNext("w1")) /\ WF_vars(WaitNext)
    /\ SF_vars(run_dequeue("w1") /\ wpc'["w1"] = "decode")

(***************************************************************************)
(* Results submitted more than once: a worker that loses the answers to    *)
(* submissions the service stored, and so submits again for the same task, *)
(* beside an aggregator whose requests may meet server errors.             *)
(***************************************************************************)
InitResubmit ==
    /\ faults = [NoFaults EXCEPT !["worker"] = {"late"}, !["llm"] = {"LLMServiceError"},
                                 !["aggregator"] = {"r500"}]
    /\ rfiles = NoFiles
    /\ \E n \in 1..MaxTasks : ProducerDone(n, [k \in 1..n |-> "r200"])
    /\ results = [t \in TaskIds |-> "none"]
    /\ InitWorkers
    /\ max_retries = 1
    /\ retry_backoff = 1
    /\ InitAggregator

NextResubmit == WorkerNext("w1") \/ AggregatorNext

SpecResubmit == InitResubmit /\ [][NextResubmit]_vars

(***************************************************************************)
(* Orphaned tasks: two workers that retry once, may be interrupted and     *)
(* may lose the answer to a submission the service stored, and an          *)
(* aggregator waiting for the job to complete.                             *)
(***************************************************************************)
InitOrphan ==
    /\ faults = [NoFaults EXCEPT !["worker"] = {"late"}]
    /\ rfiles = NoFiles
    /\ \E n \in 1..MaxTasks : ProducerDone(n, [k \in 1..n |-> "r200"])
    /\ results = [t \in TaskIds |-> "none"]
    /\ InitWorkers
    /\ max_retries = 1
    /\ retry_backoff = 1
    /\ InitAggregator

NextOrphan ==
    \/ \E w \in Workers : WorkerNext(w) \/ run_interrupt(w)
    \/ aggregate_resolve
    \/ wait_for_completion_poll
    \/ wait_for_completion_sleep

SpecOrphan == InitOrphan /\ [][NextOrphan]_vars

(***************************************************************************)
(* The aggregator alone, after a producer run and after workers that have  *)
(* stopped: each task of the queue has a SUCCESS result, a FAILURE result  *)
(* or none, and the result files may have taken damage since.              *)
(***************************************************************************)
\* the queue and the result files workers left behind, `res` giving the
\* result of each task the service accepted
WorkersDone(q, res) ==
    /\ tasks = [t \in TaskIds |->
                   IF res[t] = "none" THEN q[t] ELSE [q[t] EXCEPT !.state = "resulted"]]
    /\ results = res
    /\ processed = [t \in TaskIds |-> IF res[t] = "none" THEN {} ELSE {"w1"}]
    /\ rfiles = [p \in TaskIds |->
                    IF \E t \in TaskIds : q[t].page = p /\ res[t] = "SUCCESS"
                    THEN save_result_to_file(NoFiles, p)[p]
                    ELSE NoFiles[p]]

InitAggregate ==
    /\ faults = [NoFaults EXCEPT !["aggregator"] = Failures, !["fs"] = Damage]
    /\ qc = NoCall
    /\ \E n \in 1..MaxTasks :
         \E resps \in [1..n -> {"r200", "timeout"}] :
           LET st == ProducerRun(n, resps) IN
           /\ plocal = st.plocal
           /\ pobs = [st.pobs EXCEPT !.writes = 1, !.ret = "q1"]
           /\ mfile = [state |-> "complete", data |-> Metadata(st.plocal)]
           /\ pdf = [kind |-> "ok", pages |-> n]
           /\ ppc = "done"
           /\ \E res \in [TaskIds -> {"none", "SUCCESS", "FAILURE"}] :
                /\ \A t \in TaskIds : st.tasks[t].state = "absent" => res[t] = "none"
                /\ WorkersDone(st.tasks, res)
    /\ wpc = [w \in Workers |-> "poll"]
    /\ wtask = [w \in Workers |-> NoTask]
    /\ attempt = [w \in Workers |-> 0]
    /\ wobs = [w \in Workers |-> NoObs]
    /\ max_retries = 0
    /\ retry_backoff = 1
    /\ InitAggregator

NextAggregate == AggregatorNext

SpecAggregate == InitAggregate /\ [][NextAggregate]_vars

(***************************************************************************)
(* A lone queue client making calls that meet every response.              *)
(***************************************************************************)
Ops == {"create_queue", "enqueue_task", "dequeue_task", "submit_result",
        "get_result", "get_queue_status"}

\* the responses an operation can meet
ResponsesOf(op) ==
    CASE op \in {"create_queue", "enqueue_task", "submit_result"} -> WriteResponses
      [] op = "dequeue_task" -> ReadResponses \cup {"r204"}
      [] OTHER -> ReadResponses

\* what the method called returns or raises
Call(op, resp) ==
    CASE op = "create_queue" -> create_queue(resp)
      [] op = "enqueue_task" -> enqueue_task(resp)
      [] op = "dequeue_task" -> dequeue_task(resp)
      [] op = "submit_result" -> submit_result(resp)
      [] op = "get_result" -> get_result(resp)
      [] OTHER -> get_queue_status(resp)

Requests == {[op |-> op, resp |-> resp, out |-> "pending", calls |-> 0] :
                op \in Ops, resp \in Failures \cup {"r200", "r204"}}

\* the request is sent and meets its response
client_request ==
    /\ qc.out # "pending"
    /\ qc.calls < MaxCalls
    /\ \E r \in Requests :
         /\ r.resp \in ResponsesOf(r.op)
         /\ qc' = [r EXCEPT !.calls = qc.calls]
    /\ UNCHANGED <<faults, rfiles, processed, tasks, results, wvars, pvars, mfile, avars>>

\* the method returns or raises
client_return ==
    /\ qc.out = "pending"
    /\ qc' = [qc EXCEPT !.out = Call(qc.op, qc.resp), !.calls = @ + 1]
    /\ UNCHANGED <<faults, rfiles, processed, tasks, results, wvars, pvars, mfile, avars>>

InitClient ==
    /\ faults = NoFaults
    /\ rfiles = NoFiles
    /\ tasks = [t \in TaskIds |->
                   [state |-> "absent", prio |-> 0, page |-> 0, shape |-> "wellformed"]]
    /\ results = [t \in TaskIds |-> "none"]
    /\ InitWorkers
    /\ max_retries = 0
    /\ retry_backoff = 1
    /\ InitProducerIdle
    /\ apc = "idle" /\ alocal = NoLocal

NextClient == client_request \/ client_return

SpecClient == InitClient /\ [][NextClient]_vars

(***************************************************************************)
(* Queue client claims.                                                    *)
(***************************************************************************)
\* C19: for enqueue, dequeue, submit-result and get-status a 404 gives
\* QueueNotFoundError, a 400 InvalidRequestError, and a timeout, a lost answer
\* or a 5xx the generic QueueClientError; create-queue gives
\* InvalidRequestError for a 400 and the generic error for every other
\* failure; an error is raised for a failed response only.
C19_ErrorKindPerResponse ==
    (qc.op \in Ops \ {"get_result"} /\ qc.out # "pending") =>
        /\ (qc.resp = "r404" /\ qc.op # "create_queue") => qc.out = "QueueNotFoundError"
        /\ (qc.resp = "r404" /\ qc.op = "create_queue") => qc.out = "QueueClientError"
        /\ qc.resp = "r400" => qc.out = "InvalidRequestError"
        /\ qc.resp \in {"r500", "timeout", "late"} => qc.out = "QueueClientError"
        /\ qc.resp \in {"r200", "r204"} => qc.out \notin Errors

\* an enqueue answered 404
C19_Witness ==
    /\ qc.op = "enqueue_task"
    /\ qc.resp = "r404"
    /\ qc.out = "QueueNotFoundError"

\* C20: a dequeue answered 204 returns no task and a get-result answered 404
\* returns no result; neither raises an error.
C20_AbsenceIsNotAnError ==
    qc.out # "pending" =>
        /\ (qc.op = "dequeue_task" /\ qc.resp = "r204") => qc.out = "none"
        /\ (qc.op = "get_result" /\ qc.resp = "r404") => qc.out = "none"

\* a get-result answered 404 has returned no result
C20_Witness ==
    /\ qc.op = "get_result"
    /\ qc.resp = "r404"
    /\ qc.out = "none"
    /\ qc.calls = 1

(***************************************************************************)
(* Worker claims.                                                          *)
(***************************************************************************)
\* the worker has left _process_task for the task of its latest dequeue
Handled(w) == wtask[w] # NoTask /\ wpc[w] \in {"return", "crashed"}

ShapeOf(w) == tasks[wtask[w]].shape

\* payloads of a task that carries an id but cannot be processed
BadPayload == {"absent", "undecodable", "nonobject", "missing_field"}

\* C2: a dequeued task with an id whose payload is absent, undecodable or
\* lacks a required field never reaches generation or a SUCCESS submission and,
\* once handled, has had exactly one FAILURE submission.
C2_BadPayloadReportedAsFailure ==
    \A w \in Workers :
        (wtask[w] # NoTask /\ ShapeOf(w) \in BadPayload) =>
            /\ wobs[w].gen = 0
            /\ wobs[w].succ = 0
            /\ Handled(w) => wobs[w].fail = 1

\* C3: for a well-formed task whose generation never fails, at most
\* max_retries + 1 SUCCESS submissions are made (at most max_retries retries);
\* the FAILURE "Failed to submit result" is submitted exactly when all
\* max_retries + 1 of them failed, exactly once, carrying the last submission
\* error; `attempt` is bounded, so the loop ends.
C3_BoundedSubmissionRetries ==
    \A w \in Workers :
        LET o == wobs[w] IN
        (wtask[w] # NoTask /\ ShapeOf(w) = "wellformed" /\ wpc[w] # "decode"
           /\ o.genErr = "none") =>
            /\ attempt[w] <= max_retries + 1
            /\ o.succ <= max_retries + 1
            /\ o.succOk <= 1
            /\ o.fail <= 1
            /\ o.succOk = 1 => (o.fail = 0 /\ o.msg.kind = "none" /\ Handled(w))
            /\ o.msg.kind = "submit" <=> (o.succ = max_retries + 1 /\ o.succOk = 0)
            /\ o.msg.kind = "submit" => (o.msg.err = o.lastErr /\ wpc[w] \in {"fail", "return"})
            /\ o.fail = 1 => (o.msg.kind = "submit" /\ Handled(w))
            /\ (Handled(w) /\ o.succOk = 0) => (o.fail = 1 /\ o.msg.kind = "submit")

\* every SUCCESS submission of a task failed, the last one with a 404, and the
\* single FAILURE submission followed
C3_Witness ==
    /\ Handled("w1") /\ ShapeOf("w1") = "wellformed" /\ max_retries >= 1
    /\ wobs["w1"].genErr = "none"
    /\ wobs["w1"].succ = max_retries + 1 /\ wobs["w1"].succOk = 0
    /\ wobs["w1"].fail = 1
    /\ wobs["w1"].msg = [kind |-> "submit", err |-> "QueueNotFoundError"]

\* C4: a worker waits to retry a SUCCESS submission only after a transient
\* (generic) queue-client error, never after NotFound or InvalidRequest.
C4_OnlyTransientRetried ==
    \A w \in Workers : wpc[w] = "backoff" => wobs[w].lastErr = "QueueClientError"

C6_WorkerLoopNeverStops ==
    \A w \in Workers : wpc[w] # "crashed"

\* C21: no task is processed (generation invoked or a result submitted) by
\* two workers, no two workers hold the same task, a task that has been
\* processed is no longer pending, and a worker that is about to dequeue
\* holds no task.
C21_NoTaskProcessedByTwoWorkers ==
    /\ \A t \in TaskIds : Cardinality(processed[t]) <= 1
    /\ \A t \in TaskIds : processed[t] # {} => tasks[t].state \in {"claimed", "resulted"}
    /\ \A v, w \in Workers : (v # w /\ wtask[v] # NoTask) => wtask[v] # wtask[w]
    /\ \A w \in Workers : wpc[w] \in {"poll", "sleep"} => wtask[w] = NoTask

\* two workers at work at once, each on a task of its own, the first of them
\* in its second pass after a failed submission
C21_Witness ==
    /\ wtask["w1"] # NoTask /\ wtask["w2"] # NoTask
    /\ processed[wtask["w1"]] = {"w1"}
    /\ processed[wtask["w2"]] = {"w2"}
    /\ wobs["w1"].gen = 2
    /\ wpc["w2"] = "submit"

\* C29: while a worker processes a task it writes the task's result file at
\* most once, and only the worker that holds a task writes the file of the
\* task's page.
C29_ResultFileWrittenOnce ==
    /\ \A w \in Workers : wobs[w].writes <= 1
    /\ \A w \in Workers : wobs[w].writes > 0 => processed[wtask[w]] = {w}

\* task t was dequeued, has no result, and no running worker is in
\* _process_task for it
Orphaned(t) ==
    /\ tasks[t].state = "claimed"
    /\ \A w \in Workers : wtask[w] = t => wpc[w] \in {"crashed", "stopped"}

\* C22: a step leaves an orphaned task as it is (claimed, without a result,
\* processed by no one else, held by no running worker), and while there is
\* one the aggregator is not past its wait, before the step or after it.
C22_OrphanedTaskStallsTheJob ==
    [][\A t \in TaskIds :
          Orphaned(t) =>
              /\ Orphaned(t)'
              /\ tasks'[t] = tasks[t]
              /\ results'[t] = "none"
              /\ processed'[t] = processed[t]
              /\ apc # "collect" /\ apc' # "collect"]_vars

\* worker w1 was interrupted while it held task 1, the other tasks have their
\* results, and the aggregator, its delay at max_backoff, has polled
\* {pending 1, completed 2} once more
C22_Witness ==
    /\ wpc["w1"] = "stopped" /\ wtask["w1"] = 1 /\ Orphaned(1)
    /\ tasks[2].state = "resulted" /\ tasks[3].state = "resulted"
    /\ apc = "wait_sleep"
    /\ alocal.backoff = max_backoff
    /\ alocal.status = [kind |-> "ok", pending |-> 1, completed |-> 2]

\* C23: no step takes a task out of "resulted", lowers the completed count,
\* or adds a task to the queue or removes one; and once the status satisfies
\* the completion test for the manifest's expected count, it does so after
\* every step.
C23_CompletionIsMonotonic ==
    [][LET n == ExpectedCount(mfile.data) IN
       /\ \A t \in TaskIds : tasks[t].state = "resulted" => tasks'[t].state = "resulted"
       /\ \A t \in TaskIds : tasks[t].state = "absent" <=> tasks'[t].state = "absent"
       /\ QueueStatus'.completed >= QueueStatus.completed
       /\ Complete(QueueStatus, n) => Complete(QueueStatus', n)]_vars

\* the job is complete and the aggregator has seen it, while a worker that
\* lost the answers to its SUCCESS submissions has just stored a FAILURE for
\* the same task
C23_Witness ==
    /\ apc = "collect"
    /\ Complete(QueueStatus, alocal.expected_count)
    /\ alocal.expected_count = 3
    /\ \E w \in Workers :
         /\ wpc[w] = "return"
         /\ wobs[w].succ >= 1 /\ wobs[w].succOk = 0 /\ wobs[w].fail = 1
         /\ results[wtask[w]] = "FAILURE"
         /\ tasks[wtask[w]].state = "resulted"

(***************************************************************************)
(* Aggregator claims.                                                      *)
(***************************************************************************)
\* the aggregator is in _wait_for_completion or has left it for collection
Waiting == apc \in {"wait", "wait_sleep", "collect"}

\* C1: the wait is entered with expected_count = len(manifest.task_ids); a
\* poll is followed by another wait exactly when it failed or its counts are
\* not pending 0 and completed len(task_ids), and collection is started only
\* on a successful poll with pending 0 and completed len(task_ids).
C1_WaitEndsOnCompletePoll ==
    LET n == Len(mfile.data.task_ids)
        done == /\ alocal.status.kind = "ok"
                /\ alocal.status.pending = 0
                /\ alocal.status.completed = n
    IN /\ Waiting => (alocal.meta = mfile.data /\ alocal.expected_count = n)
       /\ apc = "wait_sleep" => ~done
       /\ apc = "collect" => done
       /\ (apc = "aborted" /\ alocal.meta # NoMeta) => alocal.status.kind = "QueueNotFoundError"

\* three tasks expected: the poll that reported {pending 0, completed 3}
\* started collection
C1_Witness ==
    /\ apc = "collect"
    /\ alocal.expected_count = 3
    /\ alocal.status = [kind |-> "ok", pending |-> 0, completed |-> 3]

\* three tasks expected: the poll that reported {pending 1, completed 2} is
\* followed by a sleep
C1_StillWaiting ==
    /\ apc = "wait_sleep"
    /\ alocal.expected_count = 3
    /\ alocal.status = [kind |-> "ok", pending |-> 1, completed |-> 2]

\* the wait ended on as many results as the manifest lists ids, fewer than its
\* total_pages
C1_FewerIdsThanPages ==
    /\ apc = "collect"
    /\ alocal.expected_count < alocal.meta.total_pages
    /\ alocal.status.completed = alocal.expected_count

\* C13: aggregate() is left by an exception only when the manifest was not
\* resolved or when a status poll of the wait reported queue-not-found.
C13_AbortsOnlyOnManifestOrNotFound ==
    apc = "aborted" =>
        \/ alocal.meta = NoMeta
        \/ alocal.status.kind = "QueueNotFoundError"

\* collection is over: aggregate() is past _collect_all_results
Collected == apc \in {"merge", "load", "csv", "stats", "done"}

RECURSIVE FetchedOk(_)
\* the ids of a fetch log for which get_result returned a result, in log order
FetchedOk(log) ==
    IF log = <<>> THEN <<>>
    ELSE IF Head(log).out = "ok" THEN <<Head(log).id>> \o FetchedOk(Tail(log))
         ELSE FetchedOk(Tail(log))

C15_BadResultsContributeNothing ==
    /\ \A k \in 1..Len(alocal.loads) :
          (alocal.loads[k].status = "FAILURE"
             \/ alocal.loads[k].file.kind \in {"absent", "undecodable", "nonobject",
                                               "bad_questions", "nondict_item"})
            => alocal.loads[k].rows = 0
    /\ alocal.err # "AttributeError"

\* the well-formed items of a file: those with a string question and answer
WellFormedItems(file) ==
    CASE file.kind = "valid" -> file.items
      [] file.kind = "invalid_item" -> file.items - 1
      [] OTHER -> 0

\* the items of a file, well-formed or not
AllItems(file) ==
    CASE file.kind \in {"valid", "invalid_item"} -> file.items
      [] OTHER -> 0

RECURSIVE SumWellFormed(_)
\* well-formed items over the SUCCESS results of a load log
SumWellFormed(log) ==
    IF log = <<>> THEN 0
    ELSE (IF Head(log).status = "SUCCESS" THEN WellFormedItems(Head(log).file) ELSE 0)
         + SumWellFormed(Tail(log))

RECURSIVE SumAllItems(_)
\* items over the SUCCESS results of a load log
SumAllItems(log) ==
    IF log = <<>> THEN 0
    ELSE (IF Head(log).status = "SUCCESS" THEN AllItems(Head(log).file) ELSE 0)
         + SumAllItems(Tail(log))

C17_RowsInAscendingPageOrder ==
    alocal.deck.written =>
        \A a, b \in 1..Len(alocal.deck.rows) :
            a < b => alocal.deck.rows[a] <= alocal.deck.rows[b]

\* a deck with rows of page 1, then of page 3, page 2 having failed
C17_Witness ==
    /\ alocal.deck.written
    /\ Len(alocal.meta.task_ids) = 3
    /\ results[alocal.meta.task_ids[2]] = "FAILURE"
    /\ alocal.deck.rows # <<>>
    /\ alocal.deck.rows[1] = 1
    /\ alocal.deck.rows[Len(alocal.deck.rows)] = 3

\* the rows of the deck that carry the tag of page p
RowsOfPage(p) == {k \in 1..Len(alocal.deck.rows) : alocal.deck.rows[k] = p}

\* C28: after a step, no task id has been fetched twice or stands twice in
\* the collected list, a result that the step collected is the one the
\* service stored for the id when it was asked, and no page has more rows in
\* the deck than one payload holds.
C28_OneResultPerTaskCounted ==
    [][LET ids == alocal.meta.task_ids
           got == alocal'.results
       IN /\ \A a, b \in 1..Len(alocal'.fetched) :
                a # b => alocal'.fetched[a].id # alocal'.fetched[b].id
          /\ \A a, b \in 1..Len(got) : a # b => got[a].id # got[b].id
          /\ (apc = "fetch" /\ Len(got) = Len(alocal.results) + 1)
               => got[Len(got)] = ResultOf(CollectOrder(ids, alocal.i))
          /\ \A p \in TaskIds : Cardinality(RowsOfPage(p)') <= MaxItems]_vars

\* the worker has stored two SUCCESS results for the task it holds (the
\* answer to the first was lost), and the deck, written meanwhile, has the
\* rows of one payload for the task's page
C28_Witness ==
    /\ wpc["w1"] = "return"
    /\ wobs["w1"].succ = 2 /\ wobs["w1"].succOk = 1 /\ wobs["w1"].gen = 2
    /\ results[wtask["w1"]] = "SUCCESS"
    /\ apc = "done"
    /\ Cardinality(RowsOfPage(tasks[wtask["w1"]].page)) = MaxItems
    /\ Len(alocal.deck.rows) = MaxItems * Len(alocal.meta.task_ids)
    /\ Len(alocal.meta.task_ids) >= 2

\* what a get-result for task t returns when it is answered
ValueOfGetResult(t) == IF results[t] = "none" THEN [id |-> t, status |-> "none"]
                       ELSE ResultOf(t)

\* C30: a step of the aggregator's wait (get-status) or collection
\* (get-result) changes no task, no stored result and no count of the queue;
\* and what get-result returns for a task changes only in a step in which a
\* worker submits a result for that task.
C30_ReadsChangeNothing ==
    [][/\ (apc \in {"wait", "fetch"} /\ alocal' # alocal) =>
            /\ tasks' = tasks
            /\ results' = results
            /\ QueueStatus' = QueueStatus
       /\ \A t \in TaskIds :
            ValueOfGetResult(t)' # ValueOfGetResult(t) =>
                \E w \in Workers : /\ wtask[w] = t
                                   /\ wpc[w] \in {"submit", "fail"}
                                   /\ wobs'[w] # wobs[w]]_vars

\* all three results have been collected and a get-result for each id would
\* return the collected value again; the queue still counts three completed
C30_Witness ==
    /\ apc = "merge"
    /\ Len(alocal.results) = 3
    /\ \A k \in 1..Len(alocal.results) :
          ValueOfGetResult(alocal.results[k].id) = alocal.results[k]
    /\ QueueStatus = [kind |-> "ok", pending |-> 0, completed |-> 3]

\* the pages with at least one row in the deck
PagesInDeck == {alocal.deck.rows[k] : k \in 1..Len(alocal.deck.rows)}

\* the ids of the manifest whose task has the given result status
IdsWith(status) ==
    {t \in TaskIds : /\ \E k \in 1..Len(alocal.meta.task_ids) : alocal.meta.task_ids[k] = t
                     /\ results[t] = status}

\* the run is the scenario's: at least one unit is expected, the manifest
\* lists a task per expected unit and every get-result of the collection
\* returned a result
OnlyResultsFailed ==
    /\ alocal.expected_count > 0
    /\ alocal.expected_count = Len(alocal.meta.task_ids)
    /\ \A k \in 1..Len(alocal.fetched) : alocal.fetched[k].out = "ok"

\* C18: a content failure of the generation step leaves the worker in its
\* loop; the aggregator, once collection has begun, is not left by an
\* exception; and when it has returned, N being expected_count and k the
\* number of tasks with a FAILURE result, the deck holds rows of exactly the
\* pages of the other N - k tasks and success_rate is (N - k) / N.
C18_FailedUnitsLeaveTheRestAndTheRatio ==
    /\ \A w \in Workers :
          wobs[w].genErr = "LLMServiceError" => wpc[w] \in {"fail", "return"}
    /\ alocal.fetched # <<>> => apc # "aborted"
    /\ (apc = "done" /\ OnlyResultsFailed) =>
          LET N == alocal.expected_count
              k == Cardinality(IdsWith("FAILURE"))
          IN /\ PagesInDeck = {tasks[t].page : t \in IdsWith("SUCCESS")}
             /\ Cardinality(PagesInDeck) = N - k
             /\ alocal.stats.pages_processed = N - k
             /\ alocal.stats.success_rate = [num |-> N - k, den |-> N]

\* N = 3, k = 1: generation failed with LLMServiceError for page 3 only, the
\* worker is back in its loop, the deck holds the rows of pages 1 and 2 and
\* success_rate is 2/3
C18_Witness ==
    /\ apc = "done" /\ OnlyResultsFailed
    /\ alocal.expected_count = 3
    /\ wpc["w1"] = "return" /\ wobs["w1"].genErr = "LLMServiceError"
    /\ wobs["w1"].gen = 1 /\ wobs["w1"].fail = 1
    /\ IdsWith("FAILURE") = {wtask["w1"]}
    /\ PagesInDeck = {1, 2}
    /\ alocal.stats.success_rate = [num |-> 2, den |-> 3]

(***************************************************************************)
(* Producer claims.                                                        *)
(***************************************************************************)
ManifestWritten == mfile.state = "complete"

RECURSIVE ReturnedIds(_)
\* the ids the enqueue calls of a log returned, in call order
ReturnedIds(log) ==
    IF log = <<>> THEN <<>>
    ELSE IF Head(log).out = "ok" THEN <<Head(log).id>> \o ReturnedIds(Tail(log))
         ELSE ReturnedIds(Tail(log))

AllEnqueued == \A i \in 1..Len(pobs.enq) : pobs.enq[i].out = "ok"

\* C7 as stated: every written manifest has total_pages = len(task_ids).
C7_TotalPagesEqualsTaskCount ==
    ManifestWritten => mfile.data.total_pages = Len(mfile.data.task_ids)

\* C7 amended: a written manifest records the page count of the PDF as
\* total_pages and one id per enqueue call that returned one, so
\* len(task_ids) <= total_pages, with equality exactly when no enqueue failed.
C7_TaskCountAtMostTotalPages ==
    ManifestWritten =>
        /\ mfile.data.total_pages = pdf.pages
        /\ Len(pobs.enq) = pdf.pages
        /\ Len(mfile.data.task_ids) = Len(ReturnedIds(pobs.enq))
        /\ Len(mfile.data.task_ids) <= mfile.data.total_pages
        /\ (Len(mfile.data.task_ids) = mfile.data.total_pages) <=> AllEnqueued

\* a manifest written after an enqueue failed
C7_Witness ==
    /\ ManifestWritten
    /\ ~AllEnqueued
    /\ Len(mfile.data.task_ids) < mfile.data.total_pages

\* C8: task_ids is at every moment the ids returned by the enqueue calls made
\* so far, in call order, the calls going through the pages in ascending
\* order; a failed call aborts nothing, and the written manifest holds that
\* list after one call per page, its tasks being those of ascending pages.
C8_TaskIdsAreReturnedIdsInPageOrder ==
    /\ plocal.task_ids = ReturnedIds(pobs.enq)
    /\ \A i \in 1..Len(pobs.enq) : pobs.enq[i].page = i
    /\ pobs.enq # <<>> => ppc # "aborted"
    /\ ManifestWritten =>
         /\ mfile.data.task_ids = ReturnedIds(pobs.enq)
         /\ Len(pobs.enq) = pdf.pages
         /\ \A i, j \in 1..Len(mfile.data.task_ids) :
              i < j => tasks[mfile.data.task_ids[i]].page < tasks[mfile.data.task_ids[j]].page

\* a manifest of a three-page run whose second enqueue failed
C8_Witness ==
    /\ ManifestWritten
    /\ pdf.pages = 3
    /\ pobs.enq[1].out = "ok" /\ pobs.enq[2].out # "ok" /\ pobs.enq[3].out = "ok"
    /\ mfile.data.task_ids = <<pobs.enq[1].id, pobs.enq[3].id>>

\* C9: the enqueue call for page i carries priority i, so priorities strictly
\* increase with the page, whatever the earlier calls returned; the service
\* holds each accepted task under the priority of its page.
C9_PriorityIsPageNumber ==
    /\ \A i \in 1..Len(pobs.enq) : pobs.enq[i].page = i /\ pobs.enq[i].prio = i
    /\ \A i, j \in 1..Len(pobs.enq) : i < j => pobs.enq[i].prio < pobs.enq[j].prio
    /\ \A t \in TaskIds : tasks[t].state # "absent" => tasks[t].prio = tasks[t].page

\* the second page enqueued with priority 2 after the first enqueue failed
C9_Witness ==
    /\ Len(pobs.enq) >= 2
    /\ pobs.enq[1].out # "ok"
    /\ pobs.enq[2].out = "ok" /\ pobs.enq[2].prio = 2

\* the failure class of an exception: a required input is missing, the
\* remote service is unreachable or rejects the request, or anything else
FailureClass(exc) ==
    CASE exc = "FileNotFoundError" -> "input_missing"
      [] exc \in Errors -> "remote_service"
      [] OTHER -> "internal"

\* C24: the status a process has exited with is non-zero and differs from the
\* status the process exits with for a failure of another class.
C24_ExitStatusPerFailureClass ==
    /\ ppc = "aborted" =>
          /\ main_producer(pobs.err) # 0
          /\ \A e \in Exceptions :
                FailureClass(e) # FailureClass(pobs.err)
                  => main_producer(e) # main_producer(pobs.err)
    /\ apc = "aborted" =>
          /\ main_aggregator(alocal.err) # 0
          /\ \A e \in Exceptions :
                FailureClass(e) # FailureClass(alocal.err)
                  => main_aggregator(e) # main_aggregator(alocal.err)
    /\ \A w \in Workers : wpc[w] = "crashed" =>
          /\ main_worker("AttributeError") # 0
          /\ main_worker("AttributeError") # main_worker("FileNotFoundError")

\* process_pdf is past its enqueue loop
LoopDone == ppc \in {"save_open", "save_dump", "save_close", "done"}

\* C25: a run makes at most one create-queue call, and exactly one once it
\* is past queue creation; the k-th enqueue call is for page k and for the
\* queue id create-queue returned, so no page has two calls; past the loop
\* there is one call per page.
C25_OneCreateOneEnqueuePerPage ==
    /\ pobs.creates <= 1
    /\ (ppc \in {"split", "enqueue"} \/ LoopDone) => (pobs.creates = 1 /\ pobs.queue \in QueueIds)
    /\ Len(pobs.enq) <= pdf.pages
    /\ \A k \in 1..Len(pobs.enq) :
          pobs.enq[k].page = k /\ pobs.enq[k].queue = pobs.queue
    /\ LoopDone => Len(pobs.enq) = pdf.pages

\* a finished run on three pages for queue q2 whose second enqueue failed:
\* three calls, the third for page 3
C25_Witness ==
    /\ ppc = "done" /\ pdf.pages = 3
    /\ pobs.queue = "q2"
    /\ Len(pobs.enq) = 3
    /\ pobs.enq[2].out # "ok"
    /\ pobs.enq[3].page = 3 /\ pobs.enq[3].out = "ok"

\* C26: a finished run has returned the id create-queue gave, its manifest
\* records that id, and looking the manifest up by the returned id finds the
\* manifest of this run, as looking it up by another id does not.
C26_ReturnedQueueIdResolvesManifest ==
    ppc = "done" =>
        /\ pobs.ret = pobs.queue
        /\ mfile.state = "complete"
        /\ mfile.data = Metadata(plocal)
        /\ mfile.data.queue_id = pobs.ret
        /\ find_metadata_for_queue(mfile, pobs.ret) = [err |-> "none", data |-> mfile.data]
        /\ \A q \in QueueIds \ {pobs.ret} :
              find_metadata_for_queue(mfile, q).err = "FileNotFoundError"

\* the run returned q2 and an aggregator has resolved the manifest of the
\* run, which names q2, and is waiting on that queue
C26_Witness ==
    /\ ppc = "done" /\ pobs.ret = "q2"
    /\ apc = "wait"
    /\ alocal.meta = mfile.data
    /\ alocal.meta.queue_id = "q2"

\* C27: the manifest path holds a file only once every page has had its
\* enqueue call, a run writes the manifest at most once and exactly once when
\* it ends, and a complete manifest is changed by no step.
C27_ManifestWrittenOnceAfterEnqueues ==
    [][/\ mfile'.state # "absent" => (LoopDone' /\ Len(pobs'.enq) = pdf'.pages)
       /\ pobs'.writes <= 1
       /\ ppc' = "done" <=> pobs'.writes = 1
       /\ mfile.state = "complete" => mfile' = mfile]_vars

\* the manifest of a three-page run is complete, its last enqueue having
\* failed, and the aggregator has since read it
C27_Witness ==
    /\ mfile.state = "complete" /\ pobs.writes = 1
    /\ Len(pobs.enq) = 3 /\ pobs.enq[3].out # "ok"
    /\ Len(mfile.data.task_ids) = 2
    /\ apc = "wait"

\* C11: a run that failed in validation, queue creation or page extraction
\* has ended with an error, has written no manifest, and the manifest path
\* holds no file.
C11_FailedRunLeavesNoManifest ==
    /\ ppc = "aborted" =>
          pobs.err \in {"FileNotFoundError", "ValueError", "InvalidRequestError",
                        "QueueClientError", "RuntimeError"}
    /\ pobs.err # "none" =>
          /\ ppc = "aborted"
          /\ pobs.writes = 0
          /\ pobs.ret = "none"
          /\ mfile = NoFile

\* page extraction failed after the queue was created
C11_Witness ==
    /\ ppc = "aborted"
    /\ pobs.err = "RuntimeError"
    /\ pobs.creates = 1
    /\ mfile = NoFile

\* C12: for a source that is missing, not a file, not a .pdf or corrupted the
\* run raises FileNotFoundError or ValueError with no create-queue call and no
\* enqueue call made, and the service holding no task.
C12_InvalidSourceMakesNoQueueCall ==
    pdf.kind # "ok" =>
        /\ ppc \in {"start", "aborted"}
        /\ ppc = "aborted" =>
              pobs.err = (IF pdf.kind = "missing" THEN "FileNotFoundError" ELSE "ValueError")
        /\ pobs.creates = 0
        /\ pobs.enq = <<>>
        /\ plocal.queue_id = "none"
        /\ \A t \in TaskIds : tasks[t].state = "absent"

\* a corrupted PDF refused
C12_Witness ==
    /\ pdf.kind = "corrupt"
    /\ ppc = "aborted"
    /\ pobs.err = "ValueError"

\* C10: the manifest path is absent or holds the whole manifest, and no
\* manifest read meets a partial file.
C10_ManifestNeverPartial ==
    /\ mfile.state \in {"absent", "complete"}
    /\ alocal.err # "JSONDecodeError"

DelayOfPoll(n) == IF 2^(n - 1) < 30 THEN 2^(n - 1) ELSE 30

\* C32: while the aggregator waits its delay is min(30, 2^(n-1)) for some n;
\* the wait is entered with delay 1; a poll leaves the delay as it is, and the
\* sleep that follows a poll, failed or non-terminal alike, takes the delay
\* from min(30, 2^(n-1)) to min(30, 2^n); the delay never decreases during
\* the wait and never exceeds 30; and a poll starts collection exactly when it
\* is answered and the counts of that answer are pending 0 and completed =
\* expected, whatever the polls before it met.
C32_PollDelaysDoubleToCap ==
    /\ [](apc \in {"wait", "wait_sleep"} =>
            /\ \E n \in 1..6 : alocal.backoff = DelayOfPoll(n)
            /\ alocal.backoff <= 30)
    /\ [][/\ (apc = "start" /\ apc' = "wait") => alocal'.backoff = 1
          /\ (apc = "wait" /\ apc' = "wait_sleep") => alocal'.backoff = alocal.backoff
          /\ (apc = "wait_sleep" /\ apc' = "wait") =>
                /\ alocal.status.kind \in {"ok", "InvalidRequestError", "QueueClientError"}
                /\ \A n \in 1..6 : alocal.backoff = DelayOfPoll(n) =>
                                      alocal'.backoff = DelayOfPoll(n + 1)
                /\ alocal'.backoff >= alocal.backoff
          /\ (apc = "wait" /\ apc' = "collect") =>
                /\ alocal'.status = QueueStatus
                /\ Complete(QueueStatus, alocal.expected_count)
          /\ (apc = "wait" /\ apc' = "wait_sleep" /\ alocal'.status.kind = "ok") =>
                /\ alocal'.status = QueueStatus
                /\ ~Complete(QueueStatus, alocal.expected_count)]_vars

\* all results are in before the aggregator starts, so its first two polls
\* can only have failed: it has slept 1 and 2 seconds and its third poll,
\* with the delay at 4, is about to be answered
C32_Witness ==
    /\ apc = "wait"
    /\ alocal.backoff = 4
    /\ alocal.expected_count = 3
    /\ Complete(QueueStatus, alocal.expected_count)

\* C33: a dequeue that gives no task (empty queue, or any error of the queue
\* client, queue-not-found included) takes the worker to its sleep with
\* nothing submitted and nothing changed at the service; the sleep is followed
\* by the next dequeue and by nothing else; the worker ends only inside the
\* processing of a task; and a sleeping worker always polls again.
C33_NoTaskSleepsAndPollsAgain ==
    /\ [][\A w \in Workers :
            /\ (wpc[w] = "poll" /\ wpc'[w] # "poll") =>
                  \/ wpc'[w] = "decode" /\ wtask'[w] # NoTask
                  \/ /\ wpc'[w] = "sleep"
                     /\ tasks' = tasks /\ results' = results /\ rfiles' = rfiles
                     /\ wobs'[w] = wobs[w] /\ wtask'[w] = wtask[w]
            /\ (wpc[w] = "sleep" /\ wpc'[w] # "sleep") =>
                  /\ wpc'[w] = "poll"
                  /\ tasks' = tasks /\ results' = results /\ wobs'[w] = wobs[w]]_vars
    /\ [](\A w \in Workers : wpc[w] = "crashed" => wtask[w] # NoTask)
    /\ \A w \in Workers : (wpc[w] = "sleep") ~> (wpc[w] = "poll")

\* a task is pending and yet the dequeue gave none: it failed, and the worker
\* sleeps, nothing submitted, no task held
C33_Witness ==
    /\ wpc["w1"] = "sleep"
    /\ Pending # {}
    /\ wtask["w1"] = NoTask
    /\ wobs["w1"] = NoObs
    /\ \A t \in TaskIds : results[t] = "none"

\* C34: a worker stopped by an interrupt makes no further request, and it
\* holds no task that it dequeued and for which it made no submission.
C34_InterruptOnlyBetweenIterations ==
    /\ \A w \in Workers :
          wpc[w] = "stopped" =>
              \/ wtask[w] = NoTask
              \/ wobs[w].succ + wobs[w].fail >= 1
    /\ \A w \in Workers : wpc[w] = "stopped" => ~ENABLED WorkerNext(w)

\* C35: whenever a task is dequeued, no pending task of the job has a lower
\* page number, and every task dequeued before it has a lower page number.
C35_DequeuedInAscendingPageOrder ==
    [][\A t \in TaskIds :
         (tasks[t].state = "pending" /\ tasks'[t].state = "claimed") =>
             /\ \A u \in TaskIds :
                   tasks[u].state = "pending" => tasks[u].page >= tasks[t].page
             /\ \A u \in TaskIds \ {t} :
                   tasks[u].state \in {"claimed", "resulted"} =>
                       tasks[u].page < tasks[t].page]_vars

\* the producer is still enqueueing the pages of a three-page PDF while one
\* worker holds the task of page 1 and the other the task of page 2
C35_Witness ==
    /\ ppc = "enqueue" /\ pdf.pages = 3
    /\ wtask["w1"] # NoTask /\ wtask["w2"] # NoTask
    /\ wpc["w1"] = "submit" /\ wpc["w2"] = "decode"
    /\ tasks[wtask["w1"]].page = 1 /\ tasks[wtask["w2"]].page = 2

\* C36: for the task a worker holds, generation is invoked at most once.
C36_GenerationAtMostOnce ==
    \A w \in Workers : wobs[w].gen <= 1

\* C37 as stated: a result is stored only for the task a submitting worker
\* holds, and no task that holds a SUCCESS result is given a FAILURE result.
C37_NeverBothSuccessAndFailure ==
    [][\A t \in TaskIds :
         /\ results'[t] # results[t] =>
               \E w \in Workers : wtask[w] = t /\ wpc[w] \in {"submit", "fail"}
         /\ ~(results[t] = "SUCCESS" /\ results'[t] = "FAILURE")]_vars

\* C37, amended: a result is stored only for the task a submitting worker
\* holds; of the submissions a worker makes for one task at most one SUCCESS
\* submission is answered without error, at most one FAILURE submission is
\* made, and none is made once a SUCCESS submission was answered; a FAILURE
\* replaces a SUCCESS only when the worker holding the task got no answer to
\* any of its SUCCESS submissions.
C37_AtMostOneAnsweredSubmission ==
    /\ [](\A w \in Workers :
            /\ wobs[w].succOk <= 1 /\ wobs[w].fail <= 1
            /\ wobs[w].succOk = 1 => wobs[w].fail = 0 /\ wpc[w] # "fail")
    /\ [][\A t \in TaskIds :
            /\ (results'[t] # results[t] \/ tasks'[t].state # tasks[t].state) =>
                  \E w \in Workers :
                      \/ wtask[w] = t /\ wpc[w] \in {"submit", "fail"}
                      \/ wtask'[w] = t /\ wpc[w] = "poll"
            /\ (results[t] = "SUCCESS" /\ results'[t] = "FAILURE") =>
                  \E w \in Workers :
                      /\ wtask[w] = t /\ wpc[w] = "fail"
                      /\ wobs[w].succ >= 1 /\ wobs[w].succOk = 0]_vars

\* the service holds the SUCCESS result of a submission whose answer was lost;
\* the worker, its retries used up without an answer, is about to submit
\* FAILURE for the same task
C37_Witness ==
    /\ wpc["w1"] = "fail" /\ wtask["w1"] # NoTask
    /\ results[wtask["w1"]] = "SUCCESS"
    /\ wobs["w1"].succ = max_retries + 1 /\ wobs["w1"].succOk = 0
    /\ wobs["w1"].msg.kind = "submit"

\* every task the queue accepted has a result
AllAcceptedResulted == \A t \in TaskIds : tasks[t].state # "absent" => results[t] # "none"

\* C38: once every task the queue accepted has a result, the aggregator's
\* wait comes to an end.
C38_WaitEndsOnceAllResulted ==
    AllAcceptedResulted ~> (apc \notin {"start", "wait", "wait_sleep"})

\* C39: every task pending in the queue eventually has a result stored at the
\* queue (and so has been dequeued).
C39_EveryTaskGetsAResult ==
    \A t \in TaskIds : (tasks[t].state = "pending") ~> (results[t] # "none")

\* the manifest aggregate() resolved records no task id
EmptyManifest ==
    apc # "start" /\ alocal.meta # NoMeta /\ Len(alocal.meta.task_ids) = 0

\* C40: with a manifest of zero task ids, the wait ends at a status poll
\* exactly when the poll is answered with pending 0 and completed 0, no
\* get-result call is made, the deck written holds no row after its header,
\* and the success rate returned is 0, computed without a zero divisor.
C40_EmptyManifestGivesHeaderOnlyDeck ==
    /\ [](EmptyManifest =>
            /\ alocal.expected_count = 0
            /\ apc # "fetch" /\ alocal.fetched = <<>> /\ alocal.results = <<>>
            /\ alocal.deck.written => alocal.deck.rows = <<>>
            /\ apc = "done" =>
                  /\ alocal.stats.success_rate.den # 0
                  /\ alocal.stats.success_rate.num = 0)
    /\ [][(EmptyManifest /\ apc = "wait" /\ apc' # "wait") =>
             (apc' = "collect" <=>
                alocal'.status = [kind |-> "ok", pending |-> 0, completed |-> 0])]_vars

\* aggregate() has returned the deck for a manifest without task ids
C40_Witness ==
    /\ EmptyManifest /\ apc = "done"
    /\ alocal.deck.written /\ alocal.stats.total_questions = 0

====
